---- MODULE Spec2Model ----
(***************************************************************************)
(* The tool-invocation and widget-action dispatch layer of the chat panel. *)
(* The repository holds two implementations of the panel:                  *)
(*   "ChatKitPanel" : src/frontend/src/components/ChatKitPanel.tsx         *)
(*   "part_000"     : src/unnamed/part_000                                 *)
(* Both share onClientTool's switch_theme and record_fact branches; they   *)
(* differ in navigate_to_url and in widgets.onAction.  The variable panel  *)
(* says which one is deployed.                                             *)
(***************************************************************************)
EXTENDS Integers, Sequences, FiniteSets, TLC

\* ------------------------------------------------------------------ bounds
MaxThreadChanges == 1
MaxTextLen == 3
MaxCalls == 3
MaxActions == 1

\* --------------------------------------------------- untyped param values
\* invocation.params maps names to untyped values; a value is modelled as
\* [t |-> its JavaScript type, v |-> its string form].
Undefined == [t |-> "undefined", v |-> ""]
Null == [t |-> "null", v |-> ""]
Str(s) == [t |-> "string", v |-> s]
Bool(b) == [t |-> "boolean", v |-> IF b THEN "true" ELSE "false"]
Num(d) == [t |-> "number", v |-> d]

\* x ?? d
Coalesce(x, d) == IF x.t \in {"undefined", "null"} THEN d ELSE x

\* String(x)
ToStr(x) ==
  CASE x.t = "undefined" -> "undefined"
    [] x.t = "null" -> "null"
    [] OTHER -> x.v

\* Boolean(x)
ToBoolean(x) ==
  CASE x.t \in {"undefined", "null"} -> FALSE
    [] x.t = "boolean" -> x.v = "true"
    [] x.t = "number" -> x.v \notin {"0", "NaN"}
    [] OTHER -> x.v # ""

\* A fact text is a sequence of characters; the undefined text has t = "undefined".
Text(cs) == [t |-> "string", v |-> cs]
NoText == [t |-> "undefined", v |-> <<>>]

\* String(invocation.params.fact_text ?? "")
TextOrEmpty(x) == IF x.t \in {"undefined", "null"} THEN <<>> ELSE x.v

\* The characters the regular expression class \s matches (those of the alphabet).
Whitespace == {" ", "\t", "\n"}

\* text.replace(/\s+/g, " "): every maximal run of whitespace becomes one space.
RECURSIVE CollapseWhitespace(_)
CollapseWhitespace(cs) ==
  IF cs = <<>> THEN <<>>
  ELSE IF Head(cs) \in Whitespace
       THEN IF Len(cs) > 1 /\ cs[2] \in Whitespace
            THEN CollapseWhitespace(Tail(cs))
            ELSE <<" ">> \o CollapseWhitespace(Tail(cs))
       ELSE <<Head(cs)>> \o CollapseWhitespace(Tail(cs))

\* String.prototype.trim()
RECURSIVE TrimStart(_)
TrimStart(cs) ==
  IF cs # <<>> /\ Head(cs) \in Whitespace THEN TrimStart(Tail(cs)) ELSE cs

RECURSIVE TrimEnd(_)
TrimEnd(cs) ==
  IF cs # <<>> /\ cs[Len(cs)] \in Whitespace
  THEN TrimEnd(SubSeq(cs, 1, Len(cs) - 1))
  ELSE cs

Trim(cs) == TrimEnd(TrimStart(cs))

\* The replacement without the trim.
NormalizeFactText_NoTrim(cs) == CollapseWhitespace(cs)

\* text.replace(/\s+/g, " ").trim()
NormalizeFactText(cs) == Trim(CollapseWhitespace(cs))

\* ------------------------------------------------------------------- URLs
AppUrl == "https://app.example/panel"
SiteUrl == "https://example.com"
ImageUrl == "https://example.com/img/cat.png"
RelativeUrl == "/files/chart.png"
BadUrl == "http://["

\* Whether the browser's URL parser accepts the string against the page's
\* base URL.  window.open(url), location.href = url and fetch(url) raise on a
\* string it rejects.
UrlParses(url) == url # BadUrl

\* Whether new URL(url), which is given no base, accepts the string.
AbsoluteUrlParses(url) == url \notin {BadUrl, RelativeUrl}

\* new URL(url).pathname.split("/")
PathSegments(url) ==
  CASE url = ImageUrl -> <<"", "img", "cat.png">>
    [] OTHER -> <<"", "">>

\* pathname.split("/").pop() || "generated-image.png"
DownloadFilename(url) ==
  LET segs == PathSegments(url)
      last_ == segs[Len(segs)]
  IN IF last_ = "" THEN "generated-image.png" ELSE last_

\* ------------------------------------------------- results and side effects
\* What a handler hands back: an object {success, error?}, undefined (a bare
\* return), or a rejected promise (a fault that escaped the handler).
\* via says where an object was built: by the handler, or passed through
\* from the backend's response body.
ResultObject(ok, msg, from) ==
  [kind |-> "object", success |-> ok, error |-> msg, via |-> from]
Success == ResultObject(TRUE, "", "handler")
Failure == ResultObject(FALSE, "", "handler")
FailureWith(msg) == ResultObject(FALSE, msg, "handler")
ReturnsUndefined == [kind |-> "undefined", success |-> FALSE, error |-> "", via |-> "handler"]
Rejects(msg) == [kind |-> "rejected", success |-> FALSE, error |-> msg, via |-> "handler"]
NoResult == [kind |-> "none", success |-> FALSE, error |-> "", via |-> "handler"]
\* The promise of an async handler that is suspended at an await.
Pending == [kind |-> "pending", success |-> FALSE, error |-> "", via |-> "handler"]

\* One observable call a handler makes, in program order.
Eff(op, arg) == [op |-> op, arg |-> arg, text |-> <<>>]
SaveEff(id, cs) == [op |-> "onWidgetAction", arg |-> id, text |-> cs]

\* What a handler run yields: the new dedupe set, the calls made, the result.
Outcome(facts, effs, res) == [facts |-> facts, effects |-> effs, result |-> res]

\* ----------------------------------------------------------- onClientTool
Panels == {"ChatKitPanel", "part_000"}

\* switch_theme accepting any string.
switch_theme_AnyString(facts, params) ==
  LET requested == params.theme
  IN IF requested.t = "string"
     THEN Outcome(facts, <<Eff("onThemeRequest", requested.v)>>, Success)
     ELSE Outcome(facts, <<>>, Failure)

\* invocation.name === "switch_theme"
switch_theme(facts, params) ==
  LET requested == params.theme
  IN IF requested.t = "string" /\ requested.v \in {"light", "dark"}
     THEN Outcome(facts, <<Eff("onThemeRequest", requested.v)>>, Success)
     ELSE Outcome(facts, <<>>, Failure)

\* String(invocation.params.fact_id ?? "")
FactIdOf(params) == ToStr(Coalesce(params.fact_id, Str("")))

\* record_fact without the processedFacts.current.has(id) test.
record_fact_NoDedupe(facts, params) ==
  LET id == FactIdOf(params)
      text == TextOrEmpty(params.fact_text)
  IN IF id = ""
     THEN Outcome(facts, <<>>, Success)
     ELSE Outcome(facts \cup {id},
                  <<Eff("processedFacts.add", id),
                    SaveEff(id, NormalizeFactText(text))>>,
                  Success)

\* record_fact without the !id test.
record_fact_NoEmptyCheck(facts, params) ==
  LET id == FactIdOf(params)
      text == TextOrEmpty(params.fact_text)
  IN IF id \in facts
     THEN Outcome(facts, <<>>, Success)
     ELSE Outcome(facts \cup {id},
                  <<Eff("processedFacts.add", id),
                    SaveEff(id, NormalizeFactText(text))>>,
                  Success)

\* record_fact issuing the save before the id is added to the set.
record_fact_SaveBeforeAdd(facts, params) ==
  LET id == FactIdOf(params)
      text == TextOrEmpty(params.fact_text)
  IN IF id = "" \/ id \in facts
     THEN Outcome(facts, <<>>, Success)
     ELSE Outcome(facts \cup {id},
                  <<SaveEff(id, NormalizeFactText(text)),
                    Eff("processedFacts.add", id)>>,
                  Success)

\* invocation.name === "record_fact"
record_fact(facts, params) ==
  LET id == FactIdOf(params)
      text == TextOrEmpty(params.fact_text)
  IN IF id = "" \/ id \in facts
     THEN Outcome(facts, <<>>, Success)
     ELSE Outcome(facts \cup {id},
                  <<Eff("processedFacts.add", id),
                    SaveEff(id, NormalizeFactText(text))>>,
                  Success)

\* window.location.href = url inside try/catch
AssignLocation(url) ==
  IF UrlParses(url)
  THEN Outcome({}, <<Eff("location.href", url)>>, Success)
  ELSE Outcome({}, <<Eff("location.href", url), Eff("console.error", "Navigation failed")>>,
               Failure)

\* The new-tab branch without the same-tab fallback.
OpenNewTab_NoFallback(url, blocked) ==
  IF ~UrlParses(url)
  THEN Outcome({}, <<Eff("window.open", url), Eff("console.error", "Navigation failed")>>,
               Failure)
  ELSE IF blocked
       THEN Outcome({}, <<Eff("window.open", url)>>, Success)
       ELSE Outcome({}, <<Eff("window.open", url), Eff("newWindow.focus", url)>>, Success)

\* window.open(url, "_blank", ...) inside try/catch, with the fallback.
OpenNewTabOrFallback(url, blocked) ==
  IF ~UrlParses(url)
  THEN Outcome({}, <<Eff("window.open", url), Eff("console.error", "Navigation failed")>>,
               Failure)
  ELSE IF blocked
       THEN Outcome({}, <<Eff("window.open", url), Eff("location.href", url)>>, Success)
       ELSE Outcome({}, <<Eff("window.open", url), Eff("newWindow.focus", url)>>, Success)

\* navigate_to_url without the !url test.
navigate_to_url_NoEmptyCheck(p, facts, params, env) ==
  LET url == ToStr(Coalesce(params.url, Str("")))
      openInNewTab == ToBoolean(Coalesce(params.open_in_new_tab, Bool(TRUE)))
      nav == IF p = "part_000" /\ openInNewTab
             THEN OpenNewTabOrFallback(url, env.blocked)
             ELSE AssignLocation(url)
  IN Outcome(facts, nav.effects, nav.result)

\* invocation.name === "navigate_to_url"
navigate_to_url(p, facts, params, env) ==
  LET url == ToStr(Coalesce(params.url, Str("")))
      openInNewTab == ToBoolean(Coalesce(params.open_in_new_tab, Bool(TRUE)))
      nav == IF p = "part_000" /\ openInNewTab
             THEN OpenNewTabOrFallback(url, env.blocked)
             ELSE AssignLocation(url)
  IN IF url = ""
     THEN Outcome(facts, <<>>, Failure)
     ELSE Outcome(facts, nav.effects, nav.result)

\* onClientTool raising on a name it does not know.
onClientTool_UnknownRaises(p, facts, invocation, env) ==
  CASE invocation.name = "switch_theme" -> switch_theme(facts, invocation.params)
    [] invocation.name = "record_fact" -> record_fact(facts, invocation.params)
    [] invocation.name = "navigate_to_url" ->
         navigate_to_url(p, facts, invocation.params, env)
    [] OTHER -> Outcome(facts, <<>>, Rejects("Unknown tool"))

onClientTool(p, facts, invocation, env) ==
  CASE invocation.name = "switch_theme" -> switch_theme(facts, invocation.params)
    [] invocation.name = "record_fact" -> record_fact(facts, invocation.params)
    [] invocation.name = "navigate_to_url" ->
         navigate_to_url(p, facts, invocation.params, env)
    [] OTHER -> Outcome(facts, <<>>, Failure)

\* onThreadChange leaving the set as it is.
onThreadChange_NoClear(facts) ==
  Outcome(facts, <<Eff("processedFacts.clear", "")>>, NoResult)

\* onThreadChange deleting one element instead of clearing.
onThreadChange_DeleteOne(facts) ==
  Outcome(IF facts = {} THEN {} ELSE facts \ {CHOOSE f \in facts : TRUE},
          <<Eff("processedFacts.clear", "")>>, NoResult)

\* processedFacts.current.clear()
onThreadChange(facts) == Outcome({}, <<Eff("processedFacts.clear", "")>>, NoResult)

\* onResponseEnd: () => { onResponseEnd(); }
onResponseEnd(facts) == Outcome(facts, <<Eff("onResponseEnd", "")>>, NoResult)

\* onError: ({ error }) => { console.error("ChatKit error", error); }
onError(facts) == Outcome(facts, <<Eff("console.error", "ChatKit error")>>, NoResult)

\* The calls the panel makes when the promise returned by onWidgetAction
\* settles.  The promise is discarded with void: no handler is attached.
\* A rejected save takes the ids back out of the dedupe set.
onSaveSettled_RollsBack(facts, how) ==
  Outcome(IF how = "reject" THEN {} ELSE facts, <<>>, NoResult)

onSaveSettled(facts, how) == Outcome(facts, <<>>, NoResult)

\* -------------------------------------------------------- widgets.onAction
\* An action is [type, url], url being the untyped action.payload?.url.
\* env.fetch is how fetch(url) of the image ends: "ok", "http_error" (a
\* response whose ok is false) or "network_error" (fetch rejects).
\* env.relay is how POST /api/widget-action ends: "ok_true" and "ok_false"
\* (2xx, body {success: true|false}), "http_error" (non-2xx with a JSON
\* body), "malformed" (response.json() rejects), "network_error".

\* fetch("/api/widget-action", ...) and response.json(), inside try/catch.
RelayToBackend(env) ==
  LET call == Eff("fetch", "/api/widget-action")
      failed == Eff("console.error", "Widget action failed")
  IN CASE env.relay = "network_error" ->
            Outcome({}, <<call, failed>>, FailureWith("Failed to fetch"))
       [] env.relay = "malformed" ->
            Outcome({}, <<call, failed>>, FailureWith("Unexpected token"))
       [] env.relay = "http_error" ->
            Outcome({}, <<call>>, ResultObject(FALSE, "", "backend-non2xx"))
       [] env.relay = "ok_false" ->
            Outcome({}, <<call>>, ResultObject(FALSE, "", "backend"))
       [] OTHER -> Outcome({}, <<call>>, ResultObject(TRUE, "", "backend"))

\* widgets.onAction of ChatKitPanel.tsx: relay first, then open the URL.
onAction_ChatKitPanel(facts, action, env) ==
  LET relay == RelayToBackend(env)
      url == action.url
      opens == /\ relay.result.via # "handler"
               /\ action.type = "navigation.open"
               /\ ToBoolean(url)
  IN IF ~opens
     THEN Outcome(facts, relay.effects, relay.result)
     ELSE IF UrlParses(ToStr(url))
          THEN Outcome(facts, relay.effects \o <<Eff("window.open", ToStr(url))>>,
                       relay.result)
          ELSE Outcome(facts,
                       relay.effects \o <<Eff("window.open", ToStr(url)),
                                          Eff("console.error", "Widget action failed")>>,
                       FailureWith("SyntaxError"))

\* The navigation.open branch of part_000 (no try/catch around it).
NavigationOpen(facts, action, env) ==
  LET url == action.url
      u == ToStr(url)
  IN IF ~ToBoolean(url)
     THEN Outcome(facts, <<>>, ReturnsUndefined)
     ELSE IF ~UrlParses(u)
          THEN Outcome(facts, <<Eff("window.open", u)>>, Rejects("SyntaxError"))
          ELSE IF env.blocked
               THEN Outcome(facts,
                            <<Eff("window.open", u), Eff("createElement", "a"),
                              Eff("appendChild", "a"), Eff("link.click", u),
                              Eff("removeChild", "a")>>,
                            ReturnsUndefined)
               ELSE Outcome(facts, <<Eff("window.open", u), Eff("newWindow.focus", u)>>,
                            ReturnsUndefined)

\* The alert of the catch block.
DownloadFailed ==
  <<Eff("console.error", "Failed to download image"), Eff("alert", "Failed to download image")>>

\* The image.download / image_generation.download branch of part_000.
ImageDownload(facts, action, env) ==
  LET url == action.url
      u == ToStr(url)
  IN IF ~ToBoolean(url)
     THEN Outcome(facts, <<Eff("console.error", "No URL provided")>>, ReturnsUndefined)
     ELSE IF ~UrlParses(u) \/ env.fetch # "ok"
          THEN Outcome(facts, <<Eff("fetch", u)>> \o DownloadFailed, ReturnsUndefined)
          ELSE IF ~AbsoluteUrlParses(u)
               THEN Outcome(facts,
                            <<Eff("fetch", u), Eff("createObjectURL", u),
                              Eff("createElement", "a")>> \o DownloadFailed,
                            ReturnsUndefined)
               ELSE Outcome(facts,
                            <<Eff("fetch", u), Eff("createObjectURL", u),
                              Eff("createElement", "a"), Eff("appendChild", "a"),
                              Eff("link.click", DownloadFilename(u)),
                              Eff("removeChild", "a"), Eff("revokeObjectURL", u)>>,
                            ReturnsUndefined)

\* widgets.onAction of part_000: local branches, then the backend relay.
onAction_part_000(facts, action, env) ==
  CASE action.type = "navigation.open" -> NavigationOpen(facts, action, env)
    [] action.type \in {"image.download", "image_generation.download"} ->
         ImageDownload(facts, action, env)
    [] OTHER -> LET relay == RelayToBackend(env)
                IN Outcome(facts, relay.effects, relay.result)

onAction(p, facts, action, env) ==
  IF p = "part_000"
  THEN onAction_part_000(facts, action, env)
  ELSE onAction_ChatKitPanel(facts, action, env)

\* ------------------------------------------------------------------ inputs
FactIds == {"f1", "f2"}
FactIdValues == {Undefined, Null, Str("")} \cup {Str(f) : f \in FactIds}
FactTextValues ==
  { NoText,
    Text(<<"a", "\t", "b">>),
    Text(<<" ", " ", "a", " ", " ", " ", "b", "\n", " ", "c", " ">>) }
ThemeValues == {Undefined, Str("light"), Str("dark"), Str("sepia"), Bool(TRUE)}
ToolUrlValues == {Undefined, Str(""), Str(SiteUrl), Str(BadUrl)}
NewTabValues == {Undefined, Bool(TRUE), Bool(FALSE), Num("0")}
WidgetUrlValues == {Undefined, Str(ImageUrl), Str(RelativeUrl), Str(BadUrl)}
FetchOutcomes == {"ok", "http_error", "network_error"}
RelayOutcomes == {"ok_true", "ok_false", "http_error", "malformed", "network_error"}

NoParams ==
  [theme |-> Undefined, fact_id |-> Undefined, fact_text |-> NoText,
   url |-> Undefined, open_in_new_tab |-> Undefined]
NoEnv == [blocked |-> FALSE, fetch |-> "ok", relay |-> "ok_true"]
Event(kind, name, params, env) ==
  [kind |-> kind, name |-> name, params |-> params, env |-> env]

\* ------------------------------------------------------------------- state
VARIABLES
  panel,               \* which implementation of the panel is deployed
  processedFacts,      \* processedFacts.current, the dedupe set
  location,            \* window.location.href
  pendingSaves,        \* per fact id, the onWidgetAction promises not yet settled
  threadChanges,       \* number of thread-change events so far
  savesInSession,      \* per fact id, onWidgetAction calls since the last thread change
  invokedSinceChange,  \* non-empty fact ids record_fact got since the last thread change
  firstSinceChange,    \* the last event was the first record_fact of its id since then
  prevFacts,           \* processedFacts before the last event
  prevLocation,        \* location before the last event
  calls,               \* the record_fact invocations in flight, by slot
  actions,             \* the widget actions suspended at an await, by slot
  earlier,             \* the calls the last handler run made before its last await
  last,                \* the last event and its inputs
  effects,             \* the calls the last step made, in program order
  result               \* what the last step returned (Pending at an await)

vars ==
  <<panel, processedFacts, location, pendingSaves, threadChanges, savesInSession,
    invokedSinceChange, firstSinceChange, prevFacts, prevLocation, calls, actions,
    earlier, last, effects, result>>

\* An invocation slot: seg is the number of segments of the handler that have
\* run, plan what the has() test decided, saved whether the call issued a
\* save, session the thread session it started in, save what became of the
\* promise of that save ("none" when the call issued none).
IdleCall ==
  [seg |-> 0, id |-> "", plan |-> Outcome({}, <<>>, NoResult), saved |-> FALSE,
   session |-> 0, save |-> "none"]

\* A widget-action slot: awaits is the number of awaits the action has
\* reached (0 when no action is in the slot), type and url the action.
IdleAction == [awaits |-> 0, type |-> "", url |-> Undefined]

Init ==
  /\ panel \in Panels
  /\ actions = [i \in 1..MaxActions |-> IdleAction]
  /\ earlier = <<>>
  /\ calls = [i \in 1..MaxCalls |-> IdleCall]
  /\ processedFacts = {}
  /\ location = AppUrl
  /\ pendingSaves = [f \in FactIds |-> 0]
  /\ threadChanges = 0
  /\ savesInSession = [f \in FactIds |-> 0]
  /\ invokedSinceChange = {}
  /\ firstSinceChange = FALSE
  /\ prevFacts = {}
  /\ prevLocation = AppUrl
  /\ last = Event("init", "", NoParams, NoEnv)
  /\ effects = <<>>
  /\ result = NoResult

\* The number of onWidgetAction({type: "save", factId: f}) calls among effs.
SaveCalls(effs, f) ==
  Cardinality({i \in DOMAIN effs : effs[i].op = "onWidgetAction" /\ effs[i].arg = f})

\* The page's location after the calls effs: the last assignment the browser accepts.
LocationAfter(loc, effs) ==
  LET hits == {i \in DOMAIN effs : effs[i].op = "location.href" /\ UrlParses(effs[i].arg)}
  IN IF hits = {} THEN loc
     ELSE effs[CHOOSE i \in hits : \A j \in hits : j <= i].arg

\* What one uninterrupted piece of a handler does: out is what it yields, ev
\* the event that ran it.
Piece(ev, out) ==
  /\ processedFacts' = out.facts
  /\ effects' = out.effects
  /\ result' = out.result
  /\ last' = ev
  /\ prevFacts' = processedFacts
  /\ prevLocation' = location
  /\ location' = LocationAfter(location, out.effects)
  /\ savesInSession' = [f \in FactIds |-> savesInSession[f] + SaveCalls(out.effects, f)]
  /\ UNCHANGED <<panel, threadChanges, calls>>

\* One handler run that has no await.
Handle(ev, out) ==
  /\ Piece(ev, out)
  /\ earlier' = <<>>
  /\ UNCHANGED actions

\* A handler run the agent runtime or the widget starts: every save it issues
\* is a new pending promise.
Run(ev, out) ==
  /\ Handle(ev, out)
  /\ pendingSaves' = [f \in FactIds |-> pendingSaves[f] + SaveCalls(out.effects, f)]

ClientTool(name, params, env) ==
  LET ev == Event("tool", name, params, env)
  IN /\ Run(ev, onClientTool(panel, processedFacts, ev, env))
     /\ invokedSinceChange' =
          IF name = "record_fact"
          THEN invokedSinceChange \cup ({FactIdOf(params)} \ {""})
          ELSE invokedSinceChange
     /\ firstSinceChange' =
          /\ name = "record_fact"
          /\ FactIdOf(params) \notin invokedSinceChange \cup {""}

SwitchTheme ==
  \E th \in ThemeValues :
    ClientTool("switch_theme", [NoParams EXCEPT !.theme = th], NoEnv)

RecordFact ==
  \E id \in FactIdValues, tx \in FactTextValues :
    ClientTool("record_fact", [NoParams EXCEPT !.fact_id = id, !.fact_text = tx], NoEnv)

\* Whether window.open(url, "_blank", ...) returns null is an input only of
\* the runs that call it and read what it returns.
NavigateToUrl ==
  \E u \in ToolUrlValues, nt \in NewTabValues, b \in BOOLEAN :
    LET params == [NoParams EXCEPT !.url = u, !.open_in_new_tab = nt]
        envOf(x) == [NoEnv EXCEPT !.blocked = x]
        run(x) == onClientTool(panel, processedFacts,
                               Event("tool", "navigate_to_url", params, envOf(x)), envOf(x))
    IN /\ b => run(TRUE) # run(FALSE)
       /\ ClientTool("navigate_to_url", params, envOf(b))

UnknownTool == ClientTool("get_weather", NoParams, NoEnv)

ThreadChange ==
  /\ threadChanges < MaxThreadChanges
  /\ LET out == onThreadChange(processedFacts)
     IN /\ processedFacts' = out.facts
        /\ effects' = out.effects
        /\ result' = out.result
  /\ last' = Event("thread", "onThreadChange", NoParams, NoEnv)
  /\ prevFacts' = processedFacts
  /\ prevLocation' = location
  /\ threadChanges' = threadChanges + 1
  /\ savesInSession' = [f \in FactIds |-> 0]
  /\ invokedSinceChange' = {}
  /\ firstSinceChange' = FALSE
  /\ earlier' = <<>>
  /\ UNCHANGED <<panel, location, pendingSaves, calls, actions>>

\* The promise returned by onWidgetAction for fact f settles.
SaveSettles(f, how) ==
  /\ pendingSaves[f] > 0
  /\ Handle(Event("settle", how, [NoParams EXCEPT !.fact_id = Str(f)], NoEnv),
            onSaveSettled(processedFacts, how))
  /\ pendingSaves' = [pendingSaves EXCEPT ![f] = @ - 1]
  /\ firstSinceChange' = FALSE
  /\ UNCHANGED invokedSinceChange

SaveResolves == \E f \in FactIds : SaveSettles(f, "resolve")

SaveRejects == \E f \in FactIds : SaveSettles(f, "reject")

ResponseEnd ==
  /\ Run(Event("response_end", "onResponseEnd", NoParams, NoEnv),
         onResponseEnd(processedFacts))
  /\ firstSinceChange' = FALSE
  /\ UNCHANGED invokedSinceChange

ChatKitError ==
  /\ Run(Event("error", "onError", NoParams, NoEnv), onError(processedFacts))
  /\ firstSinceChange' = FALSE
  /\ UNCHANGED invokedSinceChange

\* The number of awaits a run of widgets.onAction passes.  ChatKitPanel.tsx
\* awaits fetch("/api/widget-action") and then response.json() for every
\* action.  In part_000 navigation.open and a download without url return
\* before any await; a download awaits fetch(url) and, when the response is
\* ok, response.blob(); every other action awaits the relay's fetch and
\* response.json().  A fetch that rejects ends the run after the first await.
Awaits(p, action, env) ==
  IF p = "part_000" /\ action.type = "navigation.open"
  THEN 0
  ELSE IF p = "part_000" /\ action.type \in {"image.download", "image_generation.download"}
       THEN IF ~ToBoolean(action.url)
            THEN 0
            ELSE IF ~UrlParses(ToStr(action.url)) \/ env.fetch # "ok" THEN 1 ELSE 2
       ELSE IF env.relay = "network_error" THEN 1 ELSE 2

\* The position in effs of the fetch the run awaits first; 0 when it has none.
FirstAwait(effs) ==
  LET hits == {i \in DOMAIN effs : effs[i].op = "fetch"}
  IN IF hits = {} THEN 0 ELSE CHOOSE i \in hits : \A j \in hits : i <= j

\* A widget step: one uninterrupted piece of widgets.onAction.
WidgetPiece(ev, out) ==
  /\ Piece(ev, out)
  /\ pendingSaves' = [f \in FactIds |-> pendingSaves[f] + SaveCalls(out.effects, f)]
  /\ firstSinceChange' = FALSE
  /\ UNCHANGED invokedSinceChange

\* What the browser and the backend may do during a run of widgets.onAction:
\* the run reads whether window.open returned null (navigation.open of
\* part_000), how fetch(url) of the image ends (a download of part_000), or
\* how the relay to the backend ends (every other run); what it does not
\* read is left at its success value.
WidgetEnvs(p, action) ==
  LET fetched == ToBoolean(action.url) /\ UrlParses(ToStr(action.url))
  IN IF p = "part_000" /\ action.type = "navigation.open"
     THEN IF fetched THEN {[NoEnv EXCEPT !.blocked = b] : b \in BOOLEAN} ELSE {NoEnv}
     ELSE IF p = "part_000"
               /\ action.type \in {"image.download", "image_generation.download"}
          THEN IF fetched THEN {[NoEnv EXCEPT !.fetch = fo] : fo \in FetchOutcomes}
               ELSE {NoEnv}
          ELSE {[NoEnv EXCEPT !.relay = r] : r \in RelayOutcomes}

\* The ChatKit widget calls widgets.onAction.  The handler runs up to its
\* first await and returns a pending promise, or, when it has no await, runs
\* to its end.
WidgetAction(type, url) ==
  LET action == [type |-> type, url |-> url]
      params == [NoParams EXCEPT !.url = url]
  IN IF Awaits(panel, action, NoEnv) = 0
     THEN \E env \in WidgetEnvs(panel, action) :
            /\ WidgetPiece(Event("widget", type, params, env),
                           onAction(panel, processedFacts, action, env))
            /\ earlier' = <<>>
            /\ UNCHANGED actions
     ELSE \E i \in 1..MaxActions :
            LET out == onAction(panel, processedFacts, action, NoEnv)
            IN /\ actions[i].awaits = 0
               /\ \A j \in 1..(i - 1) : actions[j].awaits > 0
               /\ WidgetPiece(Event("widget-pending", type, params, NoEnv),
                              Outcome(processedFacts,
                                      SubSeq(out.effects, 1, FirstAwait(out.effects)),
                                      Pending))
               /\ earlier' = <<>>
               /\ actions' =
                    [actions EXCEPT ![i] = [awaits |-> 1, type |-> type, url |-> url]]

\* The promise the action in slot i awaits settles and the handler runs on:
\* to its next await, or to its end, where its promise settles with the
\* result.
WidgetActionResumes(i) ==
  /\ actions[i].awaits > 0
  /\ LET action == [type |-> actions[i].type, url |-> actions[i].url]
         params == [NoParams EXCEPT !.url = action.url]
         ends == {env \in WidgetEnvs(panel, action) :
                    Awaits(panel, action, env) = actions[i].awaits}
         goesOn == \E env \in WidgetEnvs(panel, action) :
                     Awaits(panel, action, env) > actions[i].awaits
     IN \/ \E env \in ends :
             LET out == onAction(panel, processedFacts, action, env)
                 k == FirstAwait(out.effects)
             IN /\ WidgetPiece(Event("widget", action.type, params, env),
                               Outcome(processedFacts,
                                       SubSeq(out.effects, k + 1, Len(out.effects)),
                                       out.result))
                /\ earlier' = SubSeq(out.effects, 1, k)
                /\ actions' = [actions EXCEPT ![i] = IdleAction]
        \/ /\ goesOn
           /\ WidgetPiece(Event("widget-pending", action.type, params, NoEnv),
                          Outcome(processedFacts, <<>>, Pending))
           /\ earlier' =
                LET out == onAction(panel, processedFacts, action, NoEnv)
                IN SubSeq(out.effects, 1, FirstAwait(out.effects))
           /\ actions' = [actions EXCEPT ![i].awaits = @ + 1]

WidgetResumes == \E i \in 1..MaxActions : WidgetActionResumes(i)

WidgetNavigationOpen ==
  \E u \in WidgetUrlValues : WidgetAction("navigation.open", u)

WidgetImageDownload ==
  \E ty \in {"image.download", "image_generation.download"}, u \in WidgetUrlValues :
    WidgetAction(ty, u)

WidgetOtherAction == WidgetAction("fact.delete", Undefined)

Next ==
  \/ SwitchTheme
  \/ RecordFact
  \/ NavigateToUrl
  \/ UnknownTool
  \/ ThreadChange
  \/ SaveResolves
  \/ SaveRejects
  \/ ResponseEnd
  \/ ChatKitError
  \/ WidgetNavigationOpen
  \/ WidgetImageDownload
  \/ WidgetOtherAction
  \/ WidgetResumes

Spec == Init /\ [][Next]_vars

\* ------------------------------------------- record_fact calls in flight
\* onClientTool is an async function.  A call runs without interruption up
\* to its next await; the record_fact branch has none, so the has() test,
\* the add, the save and the return are one segment, and the delivery of the
\* resolved promise to the agent runtime is the second.  A call is in flight
\* from its first segment to its delivery; other calls, thread changes and
\* settling saves run between the segments.

\* record_fact with an await between the has() test and the add.
RecordFactSegments_AwaitAfterCheck == <<{"check"}, {"add"}, {"deliver"}>>

RecordFactSegments == <<{"check", "add"}, {"deliver"}>>

\* The ids the calls effs add to the dedupe set.
AddedIds(effs) ==
  {effs[k].arg : k \in {j \in DOMAIN effs : effs[j].op = "processedFacts.add"}}

\* The next segment of the call in slot i runs; a call that starts takes the
\* first free slot and gets its id.
RecordFactSegment(i) ==
  /\ calls[i].seg < Len(RecordFactSegments)
  /\ calls[i].seg = 0 => \A j \in 1..(i - 1) : calls[j].seg > 0
  /\ \E id \in (IF calls[i].seg = 0 THEN FactIds ELSE {calls[i].id}) :
       LET seg == RecordFactSegments[calls[i].seg + 1]
           params == [NoParams EXCEPT !.fact_id = Str(id)]
           plan == IF "check" \in seg
                   THEN record_fact(processedFacts, params)
                   ELSE calls[i].plan
           effs == IF "add" \in seg THEN plan.effects ELSE <<>>
       IN /\ processedFacts' = processedFacts \cup AddedIds(effs)
          /\ effects' = effs
          /\ result' = IF "add" \in seg THEN plan.result ELSE NoResult
          /\ last' = Event("tool", "record_fact", params, NoEnv)
          /\ savesInSession' =
               [f \in FactIds |-> savesInSession[f] + SaveCalls(effs, f)]
          /\ pendingSaves' = [f \in FactIds |-> pendingSaves[f] + SaveCalls(effs, f)]
          /\ calls' =
               [calls EXCEPT ![i] =
                  [seg |-> calls[i].seg + 1, id |-> id, plan |-> plan,
                   saved |-> calls[i].saved \/ SaveCalls(effs, id) > 0,
                   session |-> IF calls[i].seg = 0 THEN threadChanges
                               ELSE calls[i].session,
                   save |-> IF SaveCalls(effs, id) > 0 THEN "pending"
                            ELSE calls[i].save]]
  /\ prevFacts' = processedFacts
  /\ prevLocation' = location
  /\ firstSinceChange' = FALSE
  /\ earlier' = <<>>
  /\ UNCHANGED <<panel, location, threadChanges, invokedSinceChange, actions>>

RecordFactInFlight == \E i \in 1..MaxCalls : RecordFactSegment(i)

NextConcurrent == RecordFactInFlight \/ ThreadChange \/ SaveResolves \/ SaveRejects

SpecConcurrent == Init /\ [][NextConcurrent]_vars

\* ------------------------------------------- saves of the calls settling
\* The promise of the save that the call in slot i issued settles.  Nothing
\* is attached to it (void onWidgetAction(...)), so no code runs.
SaveOfCallSettles(i, how) ==
  /\ calls[i].save = "pending"
  /\ LET f == calls[i].id
         out == onSaveSettled(processedFacts, how)
     IN /\ processedFacts' = out.facts
        /\ effects' = out.effects
        /\ result' = out.result
        /\ last' = Event("settle", how, [NoParams EXCEPT !.fact_id = Str(f)], NoEnv)
        /\ pendingSaves' = [pendingSaves EXCEPT ![f] = @ - 1]
        /\ calls' = [calls EXCEPT ![i].save =
                       IF how = "reject" THEN "rejected" ELSE "resolved"]
  /\ prevFacts' = processedFacts
  /\ prevLocation' = location
  /\ firstSinceChange' = FALSE
  /\ earlier' = <<>>
  /\ UNCHANGED <<panel, location, threadChanges, invokedSinceChange, savesInSession,
                 actions>>

SaveOfCallResolves == \E i \in 1..MaxCalls : SaveOfCallSettles(i, "resolve")

SaveOfCallRejects == \E i \in 1..MaxCalls : SaveOfCallSettles(i, "reject")

NextRetry ==
  RecordFactInFlight \/ ThreadChange \/ SaveOfCallResolves \/ SaveOfCallRejects

SpecRetry == Init /\ [][NextRetry]_vars

\* ------------------------------------------- record_fact over bounded texts
\* Every fact text of at most MaxTextLen characters over whitespace and
\* non-whitespace characters, and the text of the specification's example.
TextAlphabet == {" ", "\t", "\n", "a", "b"}
ExampleText == <<" ", " ", "a", " ", " ", " ", "b", "\n", " ", "c", " ">>
BoundedTexts ==
  UNION {[1..n -> TextAlphabet] : n \in 0..MaxTextLen} \cup {ExampleText}

RecordBoundedText ==
  \E cs \in BoundedTexts :
    ClientTool("record_fact",
               [NoParams EXCEPT !.fact_id = Str("f1"), !.fact_text = Text(cs)], NoEnv)

NextText == RecordBoundedText \/ ThreadChange

SpecText == Init /\ [][NextText]_vars

\* ================================================================== claims
LastTool(name) == last.kind = "tool" /\ last.name = name
LastWidget(types) == last.kind = "widget" /\ last.name \in types
\* The calls of the whole handler run the last step ended.
RunEffects == earlier \o effects
Calls(op) == {i \in DOMAIN RunEffects : RunEffects[i].op = op}
LastFactId == FactIdOf(last.params)

\* C1: within one thread session (no thread-change event in between) the
\* persistence callback is invoked at most once for each non-empty fact id,
\* however often record_fact is invoked with it and whatever else runs.
C1_AtMostOneSavePerSession == \A f \in FactIds : savesInSession[f] <= 1

\* record_fact was replayed with an id already saved in this session.
C1_Witness ==
  /\ LastTool("record_fact")
  /\ LastFactId \in prevFacts
  /\ savesInSession[LastFactId] = 1
  /\ Calls("onWidgetAction") = {}

\* C2: the first record_fact(f) after a thread change persists f, also when
\* f was recorded before the change: the dedupe state is per thread.
C2_FirstAfterChangePersists ==
  firstSinceChange =>
    /\ Calls("onWidgetAction") # {}
    /\ \A i \in Calls("onWidgetAction") : RunEffects[i].arg = LastFactId
    /\ result = Success

\* f was saved before the thread change and is saved again after it.
C2_Witness ==
  /\ firstSinceChange
  /\ threadChanges >= 1
  /\ pendingSaves[LastFactId] = 2
  /\ Calls("onWidgetAction") # {}

\* C3: record_fact with an empty or missing fact_id never calls the
\* persistence callback, leaves the dedupe set as it was and returns
\* {success: true}.
C3_EmptyIdIsNoOp ==
  (LastTool("record_fact") /\ last.params.fact_id \in {Undefined, Str("")}) =>
    /\ Calls("onWidgetAction") = {}
    /\ processedFacts = prevFacts
    /\ result = Success

\* record_fact ran with a missing id while the set held an id.
C3_Witness ==
  /\ LastTool("record_fact")
  /\ last.params.fact_id = Undefined
  /\ last.params.fact_text # NoText
  /\ processedFacts # {}
  /\ result = Success

\* C4: only a thread change removes elements from the dedupe set, and it
\* removes them all; switch_theme, navigate_to_url, unknown tools, widget
\* actions (and every other event but record_fact) leave the set unchanged.
C4_OnlyThreadChangeClears ==
  /\ last.kind = "thread" => processedFacts = {}
  /\ last.kind # "thread" => prevFacts \subseteq processedFacts
  /\ (last.kind \notin {"thread", "init"} /\ ~LastTool("record_fact")) =>
       processedFacts = prevFacts

\* A thread change emptied a set of two ids.
C4_Witness ==
  /\ last.kind = "thread"
  /\ prevFacts = FactIds
  /\ processedFacts = {}

\* C5: record_fact returns {success: true} while the persistence promise it
\* issued is still unsettled, and the id is added to the dedupe set before
\* the persistence callback is called.
C5_FireAndForget ==
  (LastTool("record_fact") /\ Calls("onWidgetAction") # {}) =>
    /\ result = Success
    /\ pendingSaves[LastFactId] > 0
    /\ \A i \in Calls("onWidgetAction") :
         \E j \in Calls("processedFacts.add") :
           j < i /\ RunEffects[j].arg = RunEffects[i].arg

\* record_fact returned its result with its own save, and an earlier one of
\* another id, still unsettled.
C5_Witness ==
  /\ LastTool("record_fact")
  /\ Calls("onWidgetAction") # {}
  /\ result = Success
  /\ \E f \in FactIds \ {LastFactId} : pendingSaves[f] > 0

\* C6 (as claimed): when the persistence promise rejects, the panel calls an
\* error-reporting callback.
C6_SaveFailureReported ==
  (last.kind = "settle" /\ last.name = "reject") =>
    Calls("onError") \cup Calls("console.error") # {}

\* C7: switch_theme calls the theme callback once, with the value, and
\* returns {success: true} when theme is exactly "light" or "dark"; for any
\* other value it returns {success: false} and never calls the callback.
C7_ThemeValidated ==
  LastTool("switch_theme") =>
    IF last.params.theme \in {Str("light"), Str("dark")}
    THEN /\ RunEffects = <<Eff("onThemeRequest", last.params.theme.v)>>
         /\ result = Success
    ELSE /\ Calls("onThemeRequest") = {}
         /\ result = Failure

\* switch_theme was refused for "sepia".
C7_Witness ==
  /\ LastTool("switch_theme")
  /\ last.params.theme = Str("sepia")
  /\ result = Failure

\* C8: navigate_to_url with an empty or missing url returns {success: false}
\* and neither opens a browsing context nor assigns the location.
C8_EmptyUrlRefused ==
  (LastTool("navigate_to_url") /\ last.params.url \in {Undefined, Str("")}) =>
    /\ result = Failure
    /\ Calls("window.open") = {}
    /\ Calls("location.href") = {}
    /\ location = prevLocation

\* navigate_to_url was refused for a missing url.
C8_Witness ==
  /\ LastTool("navigate_to_url")
  /\ last.params.url = Undefined
  /\ last.params.open_in_new_tab = Bool(TRUE)
  /\ result = Failure

\* window.open(url) came back empty: the url parsed and the browser refused
\* the new context.
NewContextBlocked ==
  /\ LastTool("navigate_to_url")
  /\ last.params.url.t = "string" /\ last.params.url.v # ""
  /\ last.params.open_in_new_tab \in {Undefined, Bool(TRUE)}
  /\ last.env.blocked
  /\ UrlParses(last.params.url.v)

\* C9: navigate_to_url with a non-empty url and open_in_new_tab true or
\* absent, when the new browsing context is blocked, navigates the current
\* context to the url and returns {success: true}.
C9_BlockedFallsBack ==
  NewContextBlocked =>
    /\ result = Success
    /\ \E i \in Calls("location.href") : RunEffects[i].arg = last.params.url.v
    /\ location = last.params.url.v

\* part_000 tried the new tab, was blocked and fell back.
C9_Witness ==
  /\ NewContextBlocked
  /\ panel = "part_000"
  /\ RunEffects = <<Eff("window.open", SiteUrl), Eff("location.href", SiteUrl)>>
  /\ location = SiteUrl

\* fetch(url) of the image fails: the url does not parse, the network fails,
\* or the response is not ok.
ImageFetchFails ==
  /\ LastWidget({"image.download", "image_generation.download"})
  /\ ToBoolean(last.params.url)
  /\ (~UrlParses(ToStr(last.params.url)) \/ last.env.fetch # "ok")

\* C10 (as claimed): a download action whose url cannot be fetched returns a
\* failed ActionResult and alerts the user, and does not reject.
C10_DownloadFailureReturned ==
  ImageFetchFails =>
    /\ result.kind = "object" /\ ~result.success
    /\ Calls("alert") # {}

\* C11: a tool whose name is none of switch_theme, record_fact and
\* navigate_to_url returns {success: false} and does nothing else: no call
\* at all, the dedupe set and the location as they were.
C11_UnknownToolRefused ==
  (last.kind = "tool"
     /\ last.name \notin {"switch_theme", "record_fact", "navigate_to_url"}) =>
    /\ result = Failure
    /\ RunEffects = <<>>
    /\ processedFacts = prevFacts
    /\ location = prevLocation

\* An unknown tool was refused while the dedupe set held an id.
C11_Witness ==
  /\ LastTool("get_weather")
  /\ result = Failure
  /\ processedFacts # {}

\* C12 (as claimed): no tool invocation and no widget action ends in a
\* rejected promise, i.e. in a fault that escaped the handler.
C12_NoFaultEscapes ==
  last.kind \in {"tool", "widget"} => result.kind # "rejected"

\* The request to the backend's widget-action endpoint, among the calls made.
RelayCalls == {i \in Calls("fetch") : RunEffects[i].arg = "/api/widget-action"}
LocalActionTypes == {"navigation.open", "image.download", "image_generation.download"}

\* C13 (as claimed): the three local action types are never sent to the
\* backend; every other type is sent exactly once, the backend's result is
\* returned, and a network failure gives {success: false, error}.
C13_RoutedToOneContext ==
  last.kind = "widget" =>
    IF last.name \in LocalActionTypes
    THEN RelayCalls = {}
    ELSE /\ Cardinality(RelayCalls) = 1
         /\ last.env.relay = "network_error" =>
              (result.kind = "object" /\ ~result.success /\ result.error # "")
         /\ last.env.relay \in {"ok_true", "ok_false"} =>
              (result.via = "backend"
                 /\ result.success = (last.env.relay = "ok_true"))

\* C14 (as claimed): a relayed action the backend answers with a non-2xx
\* status or with a body that is not JSON returns {success: false, error}.
C14_BackendErrorIsFailure ==
  (last.kind = "widget" /\ RelayCalls # {}
     /\ last.env.relay \in {"http_error", "malformed"}) =>
    /\ result.kind = "object"
    /\ result.via = "handler"
    /\ ~result.success
    /\ result.error # ""

\* C15 (as claimed): navigation.open without a url makes no call at all and
\* surfaces no error.
C15_NoUrlIsNoOp ==
  (LastWidget({"navigation.open"}) /\ ~ToBoolean(last.params.url)) =>
    /\ RunEffects = <<>>
    /\ result.kind # "rejected"
    /\ ~(result.kind = "object" /\ ~result.success)

\* C16 (as claimed): a download action without a url returns a failure that
\* carries the error, and fetches nothing.
C16_MissingUrlReported ==
  (LastWidget({"image.download", "image_generation.download"})
     /\ ~ToBoolean(last.params.url)) =>
    /\ result.kind = "object"
    /\ ~result.success
    /\ result.error # ""
    /\ Calls("fetch") = {}

\* The calls that navigate: opening a context, assigning the location,
\* clicking a link.
IsNavigationCall(e) ==
  e.op \in {"window.open", "newWindow.focus", "location.href", "link.click"}
NavigationCalls(effs) == SelectSeq(effs, IsNavigationCall)

\* C17 (as claimed): in the deployed panel, navigate_to_url (new tab asked or
\* defaulted) makes the navigation calls that navigation.open makes for the
\* same url and the same answer of the browser.
C17_SameNavigationPolicy ==
  (LastTool("navigate_to_url")
     /\ ToStr(Coalesce(last.params.url, Str(""))) # ""
     /\ last.params.open_in_new_tab \in {Undefined, Bool(TRUE)}) =>
    NavigationCalls(RunEffects) =
      NavigationCalls(
        onAction(panel, processedFacts,
                 [type |-> "navigation.open", url |-> last.params.url],
                 last.env).effects)

\* C18 (as claimed): an error the agent runtime reports is handed to the
\* host's error callback.
C18_ErrorForwarded ==
  last.kind = "error" => Calls("onError") # {}

\* The words of a text: its maximal runs of non-whitespace characters.
RECURSIVE WordsOf(_, _)
WordsOf(cs, word) ==
  LET done == IF word = <<>> THEN <<>> ELSE <<word>>
  IN IF cs = <<>> THEN done
     ELSE IF Head(cs) \in {" ", "\t", "\n"}
          THEN done \o WordsOf(Tail(cs), <<>>)
          ELSE WordsOf(Tail(cs), Append(word, Head(cs)))

\* The words joined by single spaces.
RECURSIVE JoinWords(_)
JoinWords(ws) ==
  IF ws = <<>> THEN <<>>
  ELSE IF Len(ws) = 1 THEN ws[1]
       ELSE ws[1] \o <<" ">> \o JoinWords(Tail(ws))

\* C19: the text record_fact hands to the persistence callback is the input
\* with every maximal run of whitespace replaced by one space and without
\* leading or trailing whitespace, i.e. its words joined by single spaces.
C19_TextNormalized ==
  (LastTool("record_fact") /\ last.params.fact_text.t = "string") =>
    \A i \in Calls("onWidgetAction") :
      RunEffects[i].text = JoinWords(WordsOf(last.params.fact_text.v, <<>>))

\* The example of the specification was persisted as "a b c".
C19_Witness ==
  /\ LastTool("record_fact")
  /\ last.params.fact_text = Text(ExampleText)
  /\ \E i \in Calls("onWidgetAction") : RunEffects[i].text = <<"a", " ", "b", " ", "c">>

\* The slots whose call is in flight: started and not yet delivered.
InFlight == {i \in 1..MaxCalls : calls[i].seg \in 1..(Len(RecordFactSegments) - 1)}

\* C20: the has() test and the add are one step: of the record_fact calls
\* for one fact id that started in one thread session, interleaved in any
\* order, at most one issues the save.
C20_AtomicCheckAndInsert ==
  \A i, j \in 1..MaxCalls :
    (i # j /\ calls[i].saved /\ calls[j].saved /\ calls[i].id = calls[j].id) =>
      calls[i].session # calls[j].session

\* Two calls for one id of one session are in flight and one of them saved.
C20_Witness ==
  \E i, j \in InFlight :
    /\ i # j
    /\ calls[i].id = calls[j].id
    /\ calls[i].session = calls[j].session
    /\ calls[i].saved /\ ~calls[j].saved
    /\ pendingSaves[calls[i].id] > 0

\* The image fetch of a download action succeeds: the url parses against the
\* page and the response is ok.
ImageFetchSucceeds ==
  /\ LastWidget({"image.download", "image_generation.download"})
  /\ panel = "part_000"
  /\ ToBoolean(last.params.url)
  /\ UrlParses(ToStr(last.params.url))
  /\ last.env.fetch = "ok"

\* C21 (as claimed): a download whose fetch succeeds clicks a link whose
\* download name is the url's last path segment ("generated-image.png" when
\* it is empty), shows no failure notice, and every object URL the handler
\* created is revoked when it returns.
C21_DownloadSavesAndReleases ==
  /\ ImageFetchSucceeds =>
       /\ \E i \in Calls("link.click") :
            RunEffects[i].arg = DownloadFilename(ToStr(last.params.url))
       /\ Calls("alert") = {}
  /\ LastWidget({"image.download", "image_generation.download"}) =>
       Cardinality(Calls("createObjectURL")) = Cardinality(Calls("revokeObjectURL"))

\* C22: a rejected save takes nothing out of the dedupe set.  The id of a
\* call whose save was rejected stays in the set for the rest of its thread
\* session, every other record_fact call for that id in that session
\* returns {success: true} and issues no save, and so a call that saves the
\* id again belongs to another session, after a thread change.
C22_InsertionNeverRolledBack ==
  \A i \in 1..MaxCalls :
    calls[i].save = "rejected" =>
      /\ calls[i].session = threadChanges => calls[i].id \in processedFacts
      /\ \A j \in (1..MaxCalls) \ {i} :
           (calls[j].seg >= 1 /\ calls[j].id = calls[i].id
              /\ calls[j].session = calls[i].session) =>
             /\ ~calls[j].saved
             /\ calls[j].plan.result = Success
             /\ calls[j].plan.effects = <<>>

\* The save of one call was rejected, and a later call for the same id in
\* the same session has just returned {success: true} without saving.
C22_Witness ==
  \E i, j \in 1..MaxCalls :
    /\ i < j
    /\ calls[i].save = "rejected"
    /\ calls[j].seg = 1
    /\ calls[j].id = calls[i].id
    /\ calls[j].session = calls[i].session
    /\ ~calls[j].saved
    /\ LastTool("record_fact") /\ LastFactId = calls[j].id
    /\ result = Success /\ RunEffects = <<>>
    /\ processedFacts = prevFacts

====
